---- MODULE Spec2Model ----
(***************************************************************************)
(* Job routes of the OGC API - Processes service (metasim/ogcapi).         *)
(*                                                                         *)
(* Two implementations of the same routes live in the repository: the     *)
(* current axum one (ogcapi-services/src/routes/processes.rs) and the      *)
(* legacy tide one (src/server/routes/processes.rs).  Both work on the     *)
(* PostgreSQL table meta.jobs, which is the only mutable state the job     *)
(* handlers touch.  A handler is one step per awaited statement: what it   *)
(* holds while it is suspended is part of the state, and other requests    *)
(* run in between.                                                         *)
(***************************************************************************)
EXTENDS Integers, Sequences, FiniteSets, Bags, TLC

\* ---------------------------------------------------------------- bounds
\* Number of identifiers Uuid::new_v4 can hand out in a run.
MaxJobs == 2

JobIds == 1..MaxJobs

\* Largest number of rows meta.processes is seeded with.
MaxProcesses == 2

\* Largest limit and offset a listing request carries.
MaxLimit == 2
MaxOffset == 1

\* Largest number of listing requests suspended between their two
\* statements at one time.
MaxSuspended == 1

\* ------------------------------------------------------------- vocabulary
\* Rows of meta.processes (seeded out of band, read-only to these routes),
\* listed in the order of their ids.
ProcessNames == << "echo", "fill", "grid", "hull", "join", "mask" >>
Catalogue(n) == {ProcessNames[i] : i \in 1..n}

Statuses == {"accepted", "running", "successful", "failed", "dismissed"}

\* SQL NULL / absent JSON member.
NULL == "null"

\* Request bodies of POST /processes/:id/execution: a document that
\* deserializes into Execute, or one that does not.
Payloads == {"execute", "malformed"}

\* StatusInfo { ..Default::default() }: the status of a freshly built job.
DefaultStatus == "accepted"

\* state.remote, the public base url of the service.
Remote == "remote"

NoBody == [job_id |-> 0, process_id |-> NULL, status |-> NULL,
           created |-> 0, results |-> NULL, links |-> << >>]

VARIABLES
    processes,   \* table meta.processes: the ids of its rows
    routed,      \* the implementations whose routes have been registered
    root,        \* state.root: the landing page's links, per implementation
    conformance, \* state.conformance: conforms_to, per implementation
    query,       \* the structured query of the request the last step answered
    page,        \* the document the last step returned, if it was a listing
    jobs,      \* table meta.jobs: a set of rows
    issued,    \* identifiers Uuid::new_v4 has returned so far
    now,       \* Utc::now, as a logical clock
    booting,   \* the implementations whose registration is under way
    listing,   \* the listing requests suspended between their two statements
    submitting, \* the execution requests suspended at their INSERT
    req,       \* the request the last step answered, if it answered one
    resp       \* the response the last step returned, if it returned one

vars == << processes, routed, root, conformance, query, page,
          jobs, issued, now, booting, listing, submitting, req, resp >>

\* The known processes, and the process ids a client may put in the path.
Registry == processes
ProcessIds == Registry \cup {"ghost"}

Impls == {"axum", "tide"}

\* Option::None of a query parameter.
None == -1

NoQuery == [limit |-> None, offset |-> None]

NoPage == [links |-> << >>, items |-> << >>]

\* No listing request is suspended.
NoListing == EmptyBag

\* ------------------------------------------------------------ SQL layer

\* The outcomes of an awaited statement: it is carried out, or the storage
\* fails and `?` returns the error.
Outcomes == {"ok", "Database"}

\* PostgreSQL accepts only positional parameters ($1, $2, ...).  sqlx sends
\* the statement text verbatim, so a statement that names a parameter `$id`
\* is rejected by the server's parser when it is prepared.
Positional == {"$1", "$2", "$3", "$4"}

Prepare(params) == IF params \subseteq Positional THEN "ok" ELSE "Database"

\* "INSERT INTO meta.jobs (job_id, process_id, status, created)
\*  VALUES ($1, $2, $3, $4)"; columns not named stay NULL.
InsertParams == {"$1", "$2", "$3", "$4"}

\* A slip that also writes a results document when the job is created.
InsertRow_WithResults(job) ==
    [job_id |-> job.job_id, process_id |-> job.process_id,
     status |-> job.status, created |-> job.created, results |-> "document"]

InsertRow(job) ==
    [job_id |-> job.job_id, process_id |-> job.process_id,
     status |-> job.status, created |-> job.created, results |-> NULL]

\* job_id is the key of meta.jobs: a second row with the same key is refused.
UniqueViolation(table, id) == \E r \in table : r.job_id = id

Insert(table, job) ==
    IF Prepare(InsertParams) # "ok" THEN [err |-> "Database", table |-> table]
    ELSE IF UniqueViolation(table, job.job_id)
         THEN [err |-> "Database", table |-> table]
         ELSE [err |-> "none", table |-> table \cup {InsertRow(job)}]

\* "DELETE FROM meta.jobs WHERE job_id = $1" followed by .execute(): the
\* number of rows affected is not looked at.
DeleteParams == {"$1"}

\* A slip that leaves the WHERE clause out.
Delete_All(table, id) ==
    IF Prepare(DeleteParams) # "ok" THEN [err |-> "Database", table |-> table]
    ELSE [err |-> "none", table |-> {}]

Delete(table, id) ==
    IF Prepare(DeleteParams) # "ok" THEN [err |-> "Database", table |-> table]
    ELSE [err |-> "none", table |-> {r \in table : r.job_id # id}]

\* "SELECT * FROM meta.jobs WHERE job_id = $id"
StatusParams == {"$id"}

\* "SELECT results FROM meta.jobs WHERE job_id = $id"
ResultsParams == {"$id"}

NoRow == [job_id |-> 0, process_id |-> NULL, status |-> NULL,
          created |-> 0, results |-> NULL]

\* .fetch_one(): prepare, run, and fail with RowNotFound on an empty answer.
FetchOne(params, table, id) ==
    LET rows == {r \in table : r.job_id = id} IN
    IF Prepare(params) # "ok" THEN [err |-> "Database", row |-> NoRow]
    ELSE IF rows = {} THEN [err |-> "RowNotFound", row |-> NoRow]
         ELSE [err |-> "none", row |-> CHOOSE r \in rows : TRUE]

\* Decoding the `results` column into (Json<Results>,): NULL does not decode.
DecodeResults(row) ==
    IF row.results = NULL THEN [err |-> "ColumnDecode", value |-> NULL]
    ELSE [err |-> "none", value |-> row.results]

\* ------------------------------------------------- errors to status codes

\* tide: `?` turns any error into tide::Error with status 500.
TideStatus(err) == 500

\* axum: `?` turns the error into crate::Error, whose response is 404 for a
\* missing resource and a server error for every other storage failure.
AxumStatus(err) == IF err = "RowNotFound" THEN 404 ELSE 500

ErrorStatus(impl, err) == IF impl = "axum" THEN AxumStatus(err) ELSE TideStatus(err)

\* ------------------------------------------------------------- responses

Response(handler, impl, code, err, location, body) ==
    [handler |-> handler, impl |-> impl, code |-> code, error |-> err,
     location |-> location, body |-> body]

Request(handler, impl, id, pid, payload) ==
    [handler |-> handler, impl |-> impl, id |-> id, process_id |-> pid,
     payload |-> payload]

\* A step that returns no response: a handler that is suspended, or a step
\* that is not a handler's.
NoRequest == Request("none", "none", 0, NULL, NULL)
NoResponse == Response("none", "none", 0, "none", << >>, NoBody)

Silent ==
    /\ req' = NoRequest
    /\ resp' = NoResponse
    /\ query' = NoQuery
    /\ page' = NoPage

\* format!("{}/jobs/{}", &state.remote, job.job_id)
AxumLocation(id) == << Remote, "jobs", id >>

\* format!("jobs/{}", job.job_id)
TideLocation(id) == << "jobs", id >>

\* ---------------------------------------------------------------- state

\* What a deployment starts from, but for the catalogue: nothing registered,
\* no job, no request yet.
Fresh ==
    /\ routed = {}
    /\ root = [i \in Impls |-> << >>]
    /\ conformance = [i \in Impls |-> << >>]
    /\ query = NoQuery
    /\ page = NoPage
    /\ jobs = {}
    /\ issued = {}
    /\ now = 0
    /\ booting = {}
    /\ listing = NoListing
    /\ submitting = {}
    /\ req = NoRequest
    /\ resp = NoResponse

\* A deployment whose catalogue holds the one process `echo`.
Init ==
    /\ processes = Catalogue(1)
    /\ routed = {}
    /\ root = [i \in Impls |-> << >>]
    /\ conformance = [i \in Impls |-> << >>]
    /\ query = NoQuery
    /\ page = NoPage
    /\ jobs = {}
    /\ issued = {}
    /\ now = 0
    /\ booting = {}
    /\ listing = NoListing
    /\ submitting = {}
    /\ req = NoRequest
    /\ resp = NoResponse

\* Uuid::new_v4(): an identifier never handed out before.
NewV4 == JobIds \ issued

\* What a handler draws for a request: the body is deserialized first, and
\* only a body that is an Execute gets as far as Uuid::new_v4().
Drawn(payload) == IF payload = "execute" THEN NewV4 ELSE {None}

\* A slip that builds the job as already running.
NewJob_Running(uuid, pid, t) ==
    [job_id |-> uuid, process_id |-> pid, status |-> "running",
     created |-> t, results |-> NULL, links |-> << >>]

\* StatusInfo { job_id, process_id: Some(id), created: Some(Utc::now()),
\*              ..Default::default() }
NewJob(uuid, pid, t) ==
    [job_id |-> uuid, process_id |-> pid, status |-> DefaultStatus,
     created |-> t, results |-> NULL, links |-> << >>]

\* The answer to a body that does not deserialize into Execute.  tide's
\* body_json fails with 422; axum's Json extractor rejects with 400 or 422,
\* depending on the release the service is built with.
RejectionCodes(impl) == IF impl = "axum" THEN {400, 422} ELSE {422}

\* Both `execution` handlers up to their await: deserialize the payload,
\* draw the identifier and read the clock to build the job.  A payload that
\* does not deserialize is answered at once; otherwise the handler is
\* suspended at its INSERT, holding the job.  (The legacy handler first
\* awaits the body; it has read nothing shared by then.)
Execute(impl, pid, payload, uuid) ==
    IF payload # "execute"
    THEN /\ req' = Request("execution", impl, 0, pid, payload)
         /\ \E code \in RejectionCodes(impl) :
                resp' = Response("execution", impl, code, "Json", << >>, NoBody)
         /\ UNCHANGED << jobs, issued, now, submitting >>
    ELSE /\ issued' = issued \cup {uuid}
         /\ now' = now + 1
         /\ submitting' = submitting \cup {[impl |-> impl, job |-> NewJob(uuid, pid, now)]}
         /\ req' = NoRequest
         /\ resp' = NoResponse
         /\ UNCHANGED jobs

execution(pid, payload, uuid) == Execute("axum", pid, payload, uuid)

legacy_execution(pid, payload, uuid) == Execute("tide", pid, payload, uuid)

\* Both `execution` handlers from the INSERT on: the suspended handler `s`
\* resumes; the row is written and the answer is 201 with Location and the
\* job as body, or the statement failed, no row is written and `?` returns
\* its error.
Inserted(impl, s, outcome) ==
    LET job == s.job
        ins == IF outcome = "ok" THEN Insert(jobs, job)
               ELSE [err |-> outcome, table |-> jobs]
        loc == IF impl = "axum" THEN AxumLocation(job.job_id)
               ELSE TideLocation(job.job_id)
    IN
    /\ s \in submitting
    /\ s.impl = impl
    /\ submitting' = submitting \ {s}
    /\ req' = Request("execution", impl, 0, job.process_id, "execute")
    /\ jobs' = ins.table
    /\ resp' = IF ins.err # "none"
               THEN Response("execution", impl, ErrorStatus(impl, ins.err),
                             ins.err, << >>, NoBody)
               ELSE Response("execution", impl, 201, "none", loc, job)
    /\ UNCHANGED << issued, now >>

execution_insert(s, outcome) == Inserted("axum", s, outcome)

legacy_execution_insert(s, outcome) == Inserted("tide", s, outcome)

\* A job row as the StatusInfo a handler returns, with its links.
JobBody(row, links) ==
    [job_id |-> row.job_id, process_id |-> row.process_id, status |-> row.status,
     created |-> row.created, results |-> NULL, links |-> links]

\* GET /jobs/:id in both implementations: SELECT the row, attach the self
\* link, answer 200 with the job; any error of the query is the answer.
GetStatus(impl, id) ==
    LET got == FetchOne(StatusParams, jobs, id) IN
    /\ req' = Request("status", impl, id, NULL, NULL)
    /\ resp' = IF got.err # "none"
               THEN Response("status", impl, ErrorStatus(impl, got.err), got.err,
                             << >>, NoBody)
               ELSE Response("status", impl, 200, "none", << >>,
                             JobBody(got.row, << "self" >>))
    /\ UNCHANGED << jobs, issued, now, submitting >>

status(id) == GetStatus("axum", id)

legacy_status(id) == GetStatus("tide", id)

\* DELETE /jobs/:id in both implementations: DELETE the row and answer 204,
\* or the statement failed, the row stays and `?` returns its error; the
\* running work is not cancelled (TODO in the source).
Dismiss(impl, id, outcome) ==
    LET del == IF outcome = "ok" THEN Delete(jobs, id)
               ELSE [err |-> outcome, table |-> jobs]
    IN
    /\ req' = Request("delete", impl, id, NULL, NULL)
    /\ jobs' = del.table
    /\ resp' = IF del.err # "none"
               THEN Response("delete", impl, ErrorStatus(impl, del.err), del.err,
                             << >>, NoBody)
               ELSE Response("delete", impl, 204, "none", << >>, NoBody)
    /\ UNCHANGED << issued, now, submitting >>

delete(id, outcome) == Dismiss("axum", id, outcome)

legacy_delete(id, outcome) == Dismiss("tide", id, outcome)

\* GET /jobs/:id/results (legacy: /jobs/:id/result): SELECT the results
\* column of the row, decode it and answer 200 with it; the job's status is
\* not looked at.
GetResults(impl, id) ==
    LET got == FetchOne(ResultsParams, jobs, id)
        dec == DecodeResults(got.row)
        err == IF got.err # "none" THEN got.err ELSE dec.err
    IN
    /\ req' = Request("results", impl, id, NULL, NULL)
    /\ resp' = IF err # "none"
               THEN Response("results", impl, ErrorStatus(impl, err), err,
                             << >>, NoBody)
               ELSE Response("results", impl, 200, "none", << >>,
                             [NoBody EXCEPT !.results = dec.value])
    /\ UNCHANGED << jobs, issued, now, submitting >>

results(id) == GetResults("axum", id)

legacy_result(id) == GetResults("tide", id)

\* ----------------------------------------------------------------- paging

Min(a, b) == IF a <= b THEN a ELSE b

\* A query parameter as the path's query string carries it: the members that
\* are None are left out (serde_qs::to_string).
QueryString(q) ==
    (IF q.limit = None THEN << >> ELSE << << "limit", q.limit >> >>)
      \o (IF q.offset = None THEN << >> ELSE << << "offset", q.offset >> >>)

\* The value of member `name` in a query string, None when it is absent.
Param(qs, name) ==
    IF \E i \in 1..Len(qs) : qs[i][1] = name
    THEN qs[CHOOSE i \in 1..Len(qs) : qs[i][1] = name][2]
    ELSE None

\* Query<ProcessQuery> / req.query(): the query string as a structured query.
ParseQuery(qs) == [limit |-> Param(qs, "limit"), offset |-> Param(qs, "offset")]

\* query.as_string_with_offset(offset) of the legacy Query.
QueryWithOffset(q, offset) == QueryString([q EXCEPT !.offset = offset])

Link(rel, url, qs) == [rel |-> rel, path |-> url, query |-> qs]

\* `offset != 0 && offset >= limit`
HasPrev(limit, offset) == offset # 0 /\ offset >= limit

\* `!x` on an integer is the bitwise complement.
BitNot(x) == -x - 1

\* `n as u64 >= count`: a negative n wraps to 2^64 + n, which is at least
\* 2^63 and so above any number of rows.
AsU64AtLeast(n, count) == IF n >= 0 THEN n >= count ELSE TRUE

\* `!(offset + limit) as u64 >= count`: `!` binds tighter than `as`, and
\* `as` tighter than `>=`, so the sum is complemented, cast and compared.
HasNext(limit, offset, count) == AsU64AtLeast(BitNot(offset + limit), count)

\* The sequences that list every member of S once.
Perms(S) ==
    {f \in [1..Cardinality(S) -> S] : \A i, j \in 1..Cardinality(S) : f[i] = f[j] => i = j}

Rank(id) == CHOOSE i \in 1..Len(ProcessNames) : ProcessNames[i] = id

\* ORDER BY id
OrderById(S) ==
    CHOOSE f \in Perms(S) : \A i, j \in 1..Cardinality(S) : i < j => Rank(f[i]) < Rank(f[j])

\* LIMIT limit OFFSET offset
LimitOffset(rows, limit, offset) ==
    IF offset >= Len(rows) THEN << >>
    ELSE SubSeq(rows, offset + 1, Min(offset + limit, Len(rows)))

\* The orders in which "SELECT summary FROM meta.processes" may answer: any
\* order without a limit, the order of the ids with one.
Answers(q) ==
    IF q.limit = None THEN Perms(processes)
    ELSE {LimitOffset(OrderById(processes), q.limit,
                      IF q.offset = None THEN 0 ELSE q.offset)}

\* `query.offset = Some(offset); serde_qs::to_string(&query)`
SetOffset(q, offset) == QueryString([q EXCEPT !.offset = offset])

\* The query string of a link to the page at `offset`.
PageQuery(impl, q, offset) ==
    IF impl = "axum" THEN SetOffset(q, offset) ELSE QueryWithOffset(q, offset)

\* The prev and next links of a page.
PageLinks(impl, path, q, count) ==
    IF q.limit = None THEN << >>
    ELSE LET offset == IF q.offset = None THEN 0 ELSE q.offset IN
         (IF HasPrev(q.limit, offset)
          THEN << Link("prev", path, PageQuery(impl, q, offset - q.limit)) >> ELSE << >>)
           \o (IF HasNext(q.limit, offset, count)
               THEN << Link("next", path, PageQuery(impl, q, offset + q.limit)) >> ELSE << >>)

\* format!("{}/{}", p.0.id, &url[..Position::AfterPath])
AxumSummaryLink(path, id) == Link("self", << id >> \o path, << >>)

\* format!("{}/{}", &url[..Position::AfterPath], p.0.id)
TideSummaryLink(path, id) == Link("self", path \o << id >>, << >>)

Summary(id, link) == [id |-> id, links |-> << link >>]

ProcessesPath == << Remote, "processes" >>

ListRequest(handler, impl) == Request(handler, impl, 0, NULL, NULL)

\* `.await?` on a statement that failed: the handler returns the error.
ListFailure(impl, q) ==
    /\ req' = ListRequest("processes", impl)
    /\ query' = q
    /\ resp' = Response("processes", impl, ErrorStatus(impl, "Database"), "Database",
                        << >>, NoBody)
    /\ page' = NoPage
    /\ UNCHANGED << jobs, issued, now, submitting >>

\* GET /processes with a limit, up to its first await:
\* "SELECT id FROM meta.processes" .execute().await?.rows_affected().  The
\* handler keeps the query and the count while it is suspended.
CountRows(impl, q, outcome) ==
    /\ q.limit # None
    /\ IF outcome = "ok"
       THEN /\ BagCardinality(listing) < MaxSuspended
            /\ listing' = listing (+) SetToBag({[impl |-> impl, query |-> q,
                                                 count |-> Cardinality(processes)]})
            /\ Silent
            /\ UNCHANGED << jobs, issued, now, submitting >>
       ELSE /\ UNCHANGED listing
            /\ ListFailure(impl, q)

\* GET /processes, current implementation, from the page statement on.  The
\* self link is the bare listing url; prev and next serialize the
\* structured query; `count` is what the first statement returned.
processes_(q, count, rows) ==
    LET self == Link("self", ProcessesPath, << >>)
        links == << self >> \o PageLinks("axum", ProcessesPath, q, count)
    IN
    /\ req' = ListRequest("processes", "axum")
    /\ query' = q
    /\ resp' = Response("processes", "axum", 200, "none", << >>, NoBody)
    /\ page' = [links |-> links,
                items |-> [i \in 1..Len(rows) |->
                              Summary(rows[i], AxumSummaryLink(ProcessesPath, rows[i]))]]
    /\ UNCHANGED << jobs, issued, now, submitting >>

\* GET /processes, legacy implementation, from the page statement on.  The
\* self link is the request's url; prev and next replace its query by the
\* query with another offset.
legacy_processes(q, count, rows) ==
    LET self == Link("self", ProcessesPath, QueryString(q))
        links == << self >> \o PageLinks("tide", ProcessesPath, q, count)
    IN
    /\ req' = ListRequest("processes", "tide")
    /\ query' = q
    /\ resp' = Response("processes", "tide", 200, "none", << >>, NoBody)
    /\ page' = [links |-> links,
                items |-> [i \in 1..Len(rows) |->
                              Summary(rows[i], TideSummaryLink(ProcessesPath, rows[i]))]]
    /\ UNCHANGED << jobs, issued, now, submitting >>

\* The page statement, .fetch_all().await?, and the answer built from it:
\* the rows come in one of the orders the statement allows.
FetchAll(impl, q, count, outcome) ==
    IF outcome = "ok"
    THEN \E rows \in Answers(q) :
            IF impl = "axum" THEN processes_(q, count, rows)
            ELSE legacy_processes(q, count, rows)
    ELSE ListFailure(impl, q)

\* The second await of a listing with a limit: the suspended handler resumes.
ListPage(impl, l, outcome) ==
    /\ BagIn(l, listing)
    /\ l.impl = impl
    /\ FetchAll(impl, l.query, l.count, outcome)
    /\ listing' = listing (-) SetToBag({l})

\* A listing without a limit has the page statement as its only await and
\* never reads a count.
ListAll(impl, q, outcome) ==
    /\ q.limit = None
    /\ FetchAll(impl, q, None, outcome)
    /\ UNCHANGED listing

\* "SELECT summary, inputs, outputs FROM meta.processes WHERE id = $id"
ProcessParams == {"$id"}

\* GET /processes/:id in both implementations: fetch the row and answer it
\* with a self link; any error of the query is the answer.
GetProcess(impl, pid) ==
    LET err == IF Prepare(ProcessParams) # "ok" THEN "Database"
               ELSE IF pid \notin processes THEN "RowNotFound" ELSE "none"
    IN
    /\ req' = Request("process", impl, 0, pid, NULL)
    /\ query' = NoQuery
    /\ resp' = IF err # "none"
               THEN Response("process", impl, ErrorStatus(impl, err), err, << >>, NoBody)
               ELSE Response("process", impl, 200, "none", << >>, NoBody)
    /\ page' = IF err # "none" THEN NoPage
               ELSE [links |-> << >>,
                     items |-> << Summary(pid, TideSummaryLink(ProcessesPath, pid)) >>]
    /\ UNCHANGED << jobs, issued, now, submitting >>

process(pid) == GetProcess("axum", pid)

legacy_process(pid) == GetProcess("tide", pid)

\* GET /jobs, current implementation: todo!() panics, the request gets no
\* response.
jobs_(q) ==
    /\ req' = ListRequest("jobs", "axum")
    /\ query' = q
    /\ resp' = Response("jobs", "axum", 0, "panic", << >>, NoBody)
    /\ page' = NoPage
    /\ UNCHANGED << jobs, issued, now, submitting >>

\* GET /jobs, legacy implementation: an empty 200.
legacy_jobs(q) ==
    /\ req' = ListRequest("jobs", "tide")
    /\ query' = q
    /\ resp' = Response("jobs", "tide", 200, "none", << >>, NoBody)
    /\ page' = NoPage
    /\ UNCHANGED << jobs, issued, now, submitting >>

\* GET /: the landing page, a copy of state.root.
root_ ==
    /\ req' = ListRequest("root", "axum")
    /\ query' = NoQuery
    /\ resp' = Response("root", "axum", 200, "none", << >>, NoBody)
    /\ page' = [links |-> root["axum"], items |-> << >>]
    /\ UNCHANGED << jobs, issued, now, submitting >>

\* GET /conformance: a copy of state.conformance.
conformance_ ==
    /\ req' = ListRequest("conformance", "axum")
    /\ query' = NoQuery
    /\ resp' = Response("conformance", "axum", 200, "none", << >>, NoBody)
    /\ page' = [links |-> << >>, items |-> conformance["axum"]]
    /\ UNCHANGED << jobs, issued, now, submitting >>

\* The structured queries a listing request may carry.
Queries ==
    [limit : {None} \cup (0..MaxLimit), offset : {None} \cup (0..MaxOffset)]

\* ------------------------------------------------------- route registration

\* The two links router() appends to state.root: rel processes and job-list.
RouterLinks(base) ==
    << [rel |-> "processes", path |-> << base, "processes" >>, query |-> << >>],
       [rel |-> "job-list", path |-> << base, "jobs" >>, query |-> << >>] >>

\* CONFORMANCE of the current implementation: five classes.
AxumConformance == << "core", "ogc-process-description", "json", "job-list", "dismiss" >>

\* CONFORMANCE of the legacy implementation: four classes.
TideConformance == << "core", "json", "ogc-process-description", "job-list" >>

\* A slip that lets the routes be built again while the service runs.
Register_Again(impl, links, classes) ==
    /\ routed' = routed \cup {impl}
    /\ root' = [root EXCEPT ![impl] = @ \o links]
    /\ conformance' = [conformance EXCEPT ![impl] = @ \o classes]
    /\ Silent
    /\ UNCHANGED << processes, jobs, issued, now, booting, listing, submitting >>

\* Building the routes of the implementation a deployment runs, once, before
\* it serves.
Register(impl, links, classes) ==
    /\ routed = {}
    /\ booting = {}
    /\ routed' = routed \cup {impl}
    /\ root' = [root EXCEPT ![impl] = @ \o links]
    /\ conformance' = [conformance EXCEPT ![impl] = @ \o classes]
    /\ Silent
    /\ UNCHANGED << processes, jobs, issued, now, booting, listing, submitting >>

\* state.root.links.append of the current implementation.
AxumRootLinks == RouterLinks(Remote)

router == Register("axum", AxumRootLinks, AxumConformance)

\* The legacy links are fixed to http://ogcapi.rs.
TideRootLinks == RouterLinks("ogcapi.rs")

\* register() up to its second await: root.write().await is taken, the two
\* links are appended and the guard is dropped with the statement.
register_root ==
    /\ routed = {}
    /\ booting = {}
    /\ booting' = {"tide"}
    /\ root' = [root EXCEPT !["tide"] = @ \o TideRootLinks]
    /\ Silent
    /\ UNCHANGED << processes, routed, conformance, jobs, issued, now, listing,
                    submitting >>

\* register() from conformance.write().await on: the classes are appended
\* and the routes are added.
register_conformance ==
    /\ "tide" \in booting
    /\ booting' = {}
    /\ conformance' = [conformance EXCEPT !["tide"] = @ \o TideConformance]
    /\ routed' = routed \cup {"tide"}
    /\ Silent
    /\ UNCHANGED << processes, root, jobs, issued, now, listing, submitting >>

register == register_root \/ register_conformance

\* ================================================================ claims

Stored(table, id) == \E r \in table : r.job_id = id

\* ---- C1 ---------------------------------------------------------------
\* C1: in every reachable state of the job store every stored job has a
\* result payload if and only if its status is successful.
C1_ResultIffSuccessful ==
    \A r \in jobs : (r.results # NULL) <=> (r.status = "successful")

\* A stored job whose results were just asked for.
C1_Witness ==
    /\ resp.handler = "results"
    /\ Stored(jobs, req.id)
    /\ Cardinality(jobs) >= 2

\* ---- C2 ---------------------------------------------------------------
Edges ==
    { << "accepted", "running" >>, << "running", "successful" >>,
      << "running", "failed" >>, << "accepted", "dismissed" >>,
      << "running", "dismissed" >> }

\* C2: every change of a stored job's status follows one of the edges
\* accepted -> running, running -> successful, running -> failed,
\* accepted -> dismissed, running -> dismissed, and a newly created job
\* starts in accepted.
C2_StatusEdges ==
    [][ /\ \A r \in jobs : \A s \in jobs' :
              (r.job_id = s.job_id /\ r.status # s.status)
                  => << r.status, s.status >> \in Edges
        /\ \A s \in jobs' :
              ~Stored(jobs, s.job_id) => s.status = "accepted" ]_vars

\* A job that was just created, next to an older one.
C2_Witness ==
    /\ resp.handler = "execution"
    /\ resp.code = 201
    /\ \E r \in jobs : r.job_id = resp.body.job_id /\ r.status = "accepted"
    /\ \E r \in jobs : r.job_id # resp.body.job_id

\* The step returned the response of handler `h`.
Handled(h) == resp'.handler = h

\* ---- C6 ---------------------------------------------------------------
\* What a submit whose INSERT was carried out leaves behind, for the status
\* code `code`.
C6_Submitted(code) ==
    LET new == jobs' \ jobs IN
    /\ jobs \subseteq jobs'
    /\ Cardinality(new) = 1
    /\ \A r \in new :
          /\ ~Stored(jobs, r.job_id)
          /\ \E s \in submitting \ submitting' : s.job.job_id = r.job_id
          /\ r.process_id = req'.process_id
          /\ r.status = "accepted"
          /\ resp'.code = code
          /\ Len(resp'.location) >= 2
          /\ SubSeq(resp'.location, Len(resp'.location) - 1, Len(resp'.location))
                 = << "jobs", r.job_id >>
          /\ resp'.body.job_id = r.job_id
          /\ resp'.body.process_id = r.process_id
          /\ resp'.body.status = "accepted"

\* The step answers a well-formed submit for a known process, and the
\* storage did not fail under it.
C6_IsSubmit ==
    /\ Handled("execution")
    /\ req'.payload = "execute"
    /\ req'.process_id \in Registry
    /\ resp'.error # "Database"

\* The identifier a submit draws was never handed out and names no record.
C6_Drawn ==
    \A s \in submitting' \ submitting :
        s.job.job_id \notin issued /\ ~Stored(jobs, s.job.job_id)

\* C6: submitting an execution for a known process adds exactly one new job
\* record with a fresh identifier, the given process id and status accepted,
\* and answers 202 Accepted with a Location referencing /jobs/<id> and the
\* created job as body.
C6_Original == [][ C6_Drawn /\ (C6_IsSubmit => C6_Submitted(202)) ]_vars

\* ---- C7 ---------------------------------------------------------------
\* C7: submitting an execution whose process id is not in the registry
\* fails with NotFound and creates no job record.
C7_UnknownProcessRejected ==
    /\ (resp.handler = "execution" /\ req.payload = "execute"
            /\ req.process_id \notin Registry) => resp.code = 404
    /\ \A r \in jobs : r.process_id \in Registry

\* ---- C8 ---------------------------------------------------------------
\* C8: get results answers 200 with the stored payload only for a successful
\* job, ResultsNotReady (409) without payload for any other stored job, and
\* NotFound (404) for an unknown id.
C8_ResultsContract ==
    resp.handler = "results" =>
        IF ~Stored(jobs, req.id)
        THEN resp.code = 404
        ELSE \A r \in jobs : r.job_id = req.id =>
                IF r.status = "successful"
                THEN resp.code = 200 /\ resp.body.results = r.results
                ELSE resp.code = 409 /\ resp.body.results = NULL

\* ---- C9 ---------------------------------------------------------------
\* C9: DELETE /jobs/<id> on a stored job answers 204 and removes the record,
\* and every get-status and get-results on an id whose record was deleted
\* answers 404.
C9_DismissThenNotFound ==
    [][ /\ (Handled("delete") /\ Stored(jobs, req'.id))
              => (resp'.code = 204 /\ ~Stored(jobs', req'.id))
        /\ ((Handled("status") \/ Handled("results"))
                /\ req'.id \in issued /\ ~Stored(jobs, req'.id)
                /\ \A s \in submitting : s.job.job_id # req'.id)
              => resp'.code = 404 ]_vars

\* ---- C10 --------------------------------------------------------------
\* C10: DELETE /jobs/<id> for an id without a record fails with 404 and
\* leaves the job store unchanged.
C10_DeleteUnknownNotFound ==
    [][ (Handled("delete") /\ ~Stored(jobs, req'.id))
            => (resp'.code = 404 /\ jobs' = jobs) ]_vars

\* ---- C11 --------------------------------------------------------------
\* C11: get status on a stored job answers 200 with its current status, a
\* self link and no results member; on an unknown id it answers 404.
C11_StatusContract ==
    resp.handler = "status" =>
        IF ~Stored(jobs, req.id)
        THEN resp.code = 404
        ELSE \A r \in jobs : r.job_id = req.id =>
                /\ resp.code = 200
                /\ resp.body.status = r.status
                /\ resp.body.links = << "self" >>
                /\ resp.body.results = NULL

\* ---- C12 --------------------------------------------------------------
Max(a, b) == IF a >= b THEN a ELSE b

\* The offset a query asks for: 0 when it names none.
OffsetOf(q) == IF q.offset = None THEN 0 ELSE q.offset

\* C12: listing jobs with limit L and offset O over C stored jobs answers 200
\* with exactly min(L, max(0, C - O)) job summaries.
C12_JobListPage ==
    (resp.handler = "jobs" /\ query.limit # None) =>
        /\ resp.code = 200
        /\ Len(page.items)
              = Min(query.limit, Max(0, Cardinality(jobs) - OffsetOf(query)))

\* ---- C13 --------------------------------------------------------------
\* The links of the returned page with relation `rel`.
LinksOf(rel) == {page.links[i] : i \in {j \in 1..Len(page.links) : page.links[j].rel = rel}}

IsPage ==
    /\ resp.handler = "processes"
    /\ resp.code = 200
    /\ query.limit # None
    /\ query.limit >= 1

\* C13: for a listing with count C, limit L >= 1 and offset O >= 0 a next
\* link is present if and only if O + L < C, and it targets offset O + L.
C13_NextIff ==
    IsPage =>
        /\ (LinksOf("next") # {})
              <=> (OffsetOf(query) + query.limit < Cardinality(processes))
        /\ \A l \in LinksOf("next") :
              Param(l.query, "offset") = OffsetOf(query) + query.limit

\* ---- C14 --------------------------------------------------------------
\* C14: for a listing with limit L >= 1 and offset O >= 0 a prev link is
\* present if and only if O > 0, and it targets offset max(0, O - L).
C14_PrevIff ==
    IsPage =>
        /\ (LinksOf("prev") # {}) <=> (OffsetOf(query) > 0)
        /\ \A l \in LinksOf("prev") :
              Param(l.query, "offset") = Max(0, OffsetOf(query) - query.limit)

\* ---- C15 --------------------------------------------------------------
\* The members of a sequence.
Range(f) == {f[i] : i \in 1..Len(f)}

\* C15: for every page with a limit L that has a next link, the page the
\* handler builds for the request the next link names has, whatever the
\* count then is, a prev link that targets the original offset O with the
\* same limit L.
C15_RoundTrip ==
    (resp.handler = "processes" /\ resp.code = 200 /\ query.limit # None) =>
        \A n \in LinksOf("next") : \A count \in 0..MaxProcesses :
            \E l \in Range(PageLinks(resp.impl, ProcessesPath, ParseQuery(n.query), count)) :
                /\ l.rel = "prev"
                /\ Param(l.query, "offset") = OffsetOf(query)
                /\ Param(l.query, "limit") = query.limit

\* ---- C16 --------------------------------------------------------------
Terminal == {"successful", "failed", "dismissed"}

\* C16: every job submitted for a known process eventually reaches a
\* terminal status or is deleted.
C16_NoJobStuck ==
    \A id \in JobIds :
        []((\E r \in jobs : r.job_id = id /\ r.process_id \in Registry)
             => <>(\/ ~Stored(jobs, id)
                   \/ \E r \in jobs : r.job_id = id /\ r.status \in Terminal))

\* ---- C18 --------------------------------------------------------------
Reads == {"processes", "process", "jobs", "status", "results", "root", "conformance"}

C19_RootFixed ==
    [][ /\ (root' # root \/ conformance' # conformance)
              => (routed = {} /\ Handled("none"))
        /\ Handled("root") => page'.links = AxumRootLinks
        /\ Handled("conformance") => page'.items = AxumConformance ]_vars

\* A conformance request answered after jobs were submitted.
C19_Witness ==
    /\ resp.handler = "conformance"
    /\ Len(page.items) = Len(AxumConformance)
    /\ Len(root["axum"]) = Len(AxumRootLinks)
    /\ jobs # {}

\* ---- C20 --------------------------------------------------------------
\* C20: every page carries exactly one self link, which reproduces the query
\* as issued, and prev and next links differ from it in the offset only.
C20_SelfLink ==
    (resp.handler = "processes" /\ resp.code = 200) =>
        /\ Cardinality(LinksOf("self")) = 1
        /\ \A l \in LinksOf("self") : ParseQuery(l.query) = query
        /\ \A l \in LinksOf("prev") \cup LinksOf("next") :
              /\ l.path = ProcessesPath
              /\ Param(l.query, "limit") = query.limit

\* ---- C21 --------------------------------------------------------------
\* C21: on every answered listing request with a limit, every prev link
\* targets an offset that is at least 0 and strictly below the current
\* offset, and every next link targets an offset strictly above it; so no
\* prev or next link points at the current page, limit 0 included.
C21_LinksMove ==
    (resp.handler = "processes" /\ resp.code = 200 /\ query.limit # None) =>
        /\ \A l \in LinksOf("prev") :
              /\ Param(l.query, "offset") >= 0
              /\ Param(l.query, "offset") < OffsetOf(query)
        /\ \A l \in LinksOf("next") :
              Param(l.query, "offset") > OffsetOf(query)

\* ---- C22 --------------------------------------------------------------
\* C22: every process summary of a listing carries a link to the process's
\* description, the listing path followed by the process id, without a
\* query string, on every page.
C22_SummaryLinks ==
    (resp.handler = "processes" /\ resp.code = 200) =>
        \A i \in 1..Len(page.items) :
            \E k \in 1..Len(page.items[i].links) :
                /\ page.items[i].links[k].path = ProcessesPath \o << page.items[i].id >>
                /\ page.items[i].links[k].query = << >>

\* ================================================================ system

\* A handler runs once its implementation's routes are registered, and
\* leaves the catalogue and the shared landing page state alone.
Routed(impl) ==
    /\ impl \in routed
    /\ UNCHANGED << processes, routed, root, conformance, booting >>

\* A handler that is not the process listing leaves a suspended listing as
\* it is.
Other(impl) ==
    /\ Routed(impl)
    /\ UNCHANGED listing

\* The job handlers carry no query and return no listing document.
JobRoute(impl) ==
    /\ Other(impl)
    /\ query' = NoQuery
    /\ page' = NoPage

\* The catalogue is administered out of band: the next process is added
\* while the service runs.
Administer ==
    /\ Cardinality(processes) < MaxProcesses
    /\ processes' = Catalogue(Cardinality(processes) + 1)
    /\ Silent
    /\ UNCHANGED << routed, root, conformance, jobs, issued, now, booting, listing,
                    submitting >>

\* The steps of GET /processes in one implementation.
Listing(impl, Q) ==
    \/ \E q \in Q, outcome \in Outcomes :
           Routed(impl) /\ CountRows(impl, q, outcome)
    \/ \E l \in BagToSet(listing), outcome \in Outcomes :
           Routed(impl) /\ ListPage(impl, l, outcome)
    \/ \E q \in Q, outcome \in Outcomes : Routed(impl) /\ ListAll(impl, q, outcome)

\* The listing requests of a deployment that is mostly asked about jobs:
\* one without and one with a limit.
JobQueries == {NoQuery, [limit |-> 1, offset |-> None]}

Next ==
    \/ router
    \/ register
    \/ \E pid \in ProcessIds, payload \in Payloads : \E uuid \in Drawn(payload) :
           JobRoute("axum") /\ execution(pid, payload, uuid)
    \/ \E pid \in ProcessIds, payload \in Payloads : \E uuid \in Drawn(payload) :
           JobRoute("tide") /\ legacy_execution(pid, payload, uuid)
    \/ \E s \in submitting, outcome \in Outcomes :
           JobRoute("axum") /\ execution_insert(s, outcome)
    \/ \E s \in submitting, outcome \in Outcomes :
           JobRoute("tide") /\ legacy_execution_insert(s, outcome)
    \/ \E id \in JobIds : JobRoute("axum") /\ status(id)
    \/ \E id \in JobIds : JobRoute("tide") /\ legacy_status(id)
    \/ \E id \in JobIds, outcome \in Outcomes :
           JobRoute("axum") /\ delete(id, outcome)
    \/ \E id \in JobIds, outcome \in Outcomes :
           JobRoute("tide") /\ legacy_delete(id, outcome)
    \/ \E id \in JobIds : JobRoute("axum") /\ results(id)
    \/ \E id \in JobIds : JobRoute("tide") /\ legacy_result(id)
    \/ Listing("axum", JobQueries)
    \/ Listing("tide", JobQueries)
    \/ \E pid \in ProcessIds : Other("axum") /\ process(pid)
    \/ \E pid \in ProcessIds : Other("tide") /\ legacy_process(pid)
    \/ \E q \in JobQueries : Other("axum") /\ jobs_(q)
    \/ \E q \in JobQueries : Other("tide") /\ legacy_jobs(q)
    \/ Other("axum") /\ root_
    \/ Other("axum") /\ conformance_

Spec == Init /\ [][Next]_vars

\* The same deployment with every enabled step eventually taken.
FairSpec == Spec /\ WF_vars(Next)

\* The process listing on its own, over catalogues of every size.
PageInit ==
    /\ \E n \in 0..MaxProcesses : processes = Catalogue(n)
    /\ Fresh

PageNext ==
    \/ router
    \/ register
    \/ Listing("axum", Queries)
    \/ Listing("tide", Queries)
    \/ Administer

PageSpec == PageInit /\ [][PageNext]_vars
====
